---- MODULE Spec2Model ----
(***************************************************************************)
(* Site store (src/storage/sites.ts) and REST client (src/api/wordpress.ts) *)
(* of the WordPress quick-post extension.                                   *)
(*                                                                          *)
(* LocalStorage is the host key-value store.  Every exported operation of   *)
(* the site store is an async function; a call is modelled as a process     *)
(* that advances from one await point to the next, so that calls issued by  *)
(* different UI handlers interleave exactly where the code awaits.          *)
(*                                                                          *)
(* Strings that the code inspects character by character (baseUrl,          *)
(* restBase, routes) are sequences of one-character strings; opaque         *)
(* strings (names, user names, passwords) are TLA+ strings.                 *)
(***************************************************************************)
EXTENDS Integers, Sequences, FiniteSets, TLC

VARIABLES
    LocalStorage,   \* key -> stored content (the host key-value store)
    now,            \* the wall clock when it was last read
    uuidCount,      \* number of ids handed out by randomUUID()
    pc,             \* per call: the await point it is suspended at, or
                    \*   "done" / "failed" once its promise has settled
    input,          \* per call: the argument of the function
    local,          \* per call: the local variables of the function; once
                    \*   settled, the result or the error of the promise
    calls,          \* number of calls made so far
    validated,      \* history: the validation requests the site has accepted
    env             \* scheduling of the calls and storage faults

vars == <<LocalStorage, now, uuidCount, pc, input, local, calls, validated, env>>

----------------------------------------------------------------------------
(* Bounds of the model *)

MaxUuid == 2        \* calls of randomUUID()
MaxClock == 1       \* latest reading of the clock
MaxStored == 2      \* entries of a metadata array found at start-up
MaxCalls == 2       \* calls of the exported functions in one run
MaxLen == 3         \* characters of a base URL, REST base or route

Procs == {"p1", "p2"}

----------------------------------------------------------------------------
(* JavaScript values *)

Undefined == [t |-> "undefined"]
JNull == [t |-> "null"]
JNumber == [t |-> "number"]
JObject == [t |-> "object"]
JArray(items) == [t |-> "array", items |-> items]

IsArray(v) == ("t" \in DOMAIN v) /\ (v.t = "array")

\* !v for the values a parsed record can be
Falsy(v) == v \in {Undefined, JNull}

\* { ...a, ...b }
Spread(a, b) == [f \in (DOMAIN a) \cup (DOMAIN b) |->
                    IF f \in DOMAIN b THEN b[f] ELSE a[f]]

TypeError == [name |-> "TypeError"]
SyntaxError == [name |-> "SyntaxError"]
StorageError == [name |-> "StorageError"]
NetworkError == [name |-> "NetworkError"]
Error(message) == [name |-> "Error", message |-> message]

\* outcome of an expression that may throw
Returned(v) == [ok |-> TRUE, value |-> v]
Thrown(e) == [ok |-> FALSE, error |-> e]

----------------------------------------------------------------------------
(* Stored contents: what LocalStorage.getItem yields for a key *)

Absent == [kind |-> "absent"]           \* getItem yields undefined
EmptyText == [kind |-> "empty"]         \* the empty string
Garbage == [kind |-> "garbage"]         \* text that is not JSON

JSONstringify(v) == [kind |-> "json", value |-> v]

JSONparse(data) ==
    IF data.kind = "json" THEN Returned(data.value) ELSE Thrown(SyntaxError)

----------------------------------------------------------------------------
(* src/storage/sites.ts: keys *)

SITE_INDEX_KEY == <<"site-index">>
SITE_SECRET_PREFIX == "site-secret-"

SecretKey(id) == <<SITE_SECRET_PREFIX, id>>

\* ids of sites stored by an earlier session
StoredIds == {<<"stored", 1>>}
Uuid(n) == <<"uuid", n>>
Uuids == {Uuid(n) : n \in 1..MaxUuid}
\* id of one more site of an earlier session, next to the one being worked on
OtherIds == {<<"stored", 2>>}
AllIds == StoredIds \cup OtherIds \cup Uuids

Keys == {SITE_INDEX_KEY} \cup {SecretKey(id) : id \in AllIds}

\* crypto.randomUUID(): a value that was never returned before
randomUUID == Uuid(uuidCount + 1)

\* new Date().toISOString() and its inverse
toISOString(t) == <<"iso", t>>
DateParse(s) == s[2]

----------------------------------------------------------------------------
(* src/api/wordpress.ts: URL helpers *)

Slash == "/"
DefaultRestBase ==
    <<"/", "w", "p", "-", "j", "s", "o", "n", "/", "w", "p", "/", "v", "2", "/">>

RECURSIVE StripLeadingSlashes(_)
StripLeadingSlashes(s) ==
    IF s # <<>> /\ Head(s) = Slash THEN StripLeadingSlashes(Tail(s)) ELSE s

RECURSIVE IsBlank(_)
IsBlank(s) == (s = <<>>) \/ (Head(s) = " " /\ IsBlank(Tail(s)))

EndsWithSlash(s) == (s # <<>>) /\ (s[Len(s)] = Slash)

normalizeBaseUrl(baseUrl) ==
    IF EndsWithSlash(baseUrl) THEN SubSeq(baseUrl, 1, Len(baseUrl) - 1)
    ELSE baseUrl

\* the argument is a connection, whose restBase is optional
normalizeRestBase(connection) ==
    IF "restBase" \notin DOMAIN connection \/ IsBlank(connection.restBase)
    THEN DefaultRestBase
    ELSE LET trimmed == StripLeadingSlashes(connection.restBase)
             withTrailingSlash ==
                 IF EndsWithSlash(trimmed) THEN trimmed
                 ELSE trimmed \o <<Slash>>
         IN  <<Slash>> \o withTrailingSlash

\* as buildApiUrl, with the route taken as it is
buildApiUrlKeepingRoute(connection, route) ==
    normalizeBaseUrl(connection.baseUrl) \o normalizeRestBase(connection) \o route

buildApiUrl(connection, route) ==
    LET baseUrl == normalizeBaseUrl(connection.baseUrl)
        restBase == normalizeRestBase(connection)
        normalizedRoute == StripLeadingSlashes(route)
    IN  baseUrl \o restBase \o normalizedRoute

UsersMe == <<"u", "s", "e", "r", "s", "/", "m", "e">>

----------------------------------------------------------------------------
(* src/api/wordpress.ts: REST client *)

\* What the injected fetcher does with the request: it rejects, or it
\* resolves to a response whose body is text
NetworkFailure == [kind |-> "reject"]
Response(status, statusText, body) ==
    [kind |-> "response", ok |-> (status \in 200..299), status |-> status,
     statusText |-> statusText, body |-> body]

WPUser == [id |-> 1, name |-> "admin", slug |-> "admin"]

Responses ==
    {NetworkFailure}
    \cup {Response(200, "OK", b) :
            b \in {JSONstringify(WPUser), JSONstringify(JNull), Garbage}}
    \cup {Response(401, "Unauthorized", b) :
            b \in {Garbage, JSONstringify(JNull),
                   JSONstringify([message |-> "bad password"]),
                   JSONstringify([message |-> ""]),
                   JSONstringify([code |-> "rest_forbidden"])}}

\* data?.message, "" when the body has none
MessageOf(data) ==
    IF data # JNull /\ "message" \in DOMAIN data THEN data.message ELSE ""

\* the two forms of an error message: a text of the body, or the status line
BodyMessage(text) == [text |-> text]
StatusLine(status, statusText) == [status |-> status, statusText |-> statusText]

\* as extractErrorMessage, with the message of the body taken even when empty
extractErrorMessageOfBody(response) ==
    LET parsed == JSONparse(response.body)
    IN  IF parsed.ok THEN BodyMessage(MessageOf(parsed.value))
        ELSE StatusLine(response.status, response.statusText)

extractErrorMessage(response) ==
    LET parsed == JSONparse(response.body)
    IN  IF parsed.ok /\ MessageOf(parsed.value) # ""
        THEN BodyMessage(MessageOf(parsed.value))
        ELSE StatusLine(response.status, response.statusText)

fetchJson(url, credentials, fetched) ==
    IF fetched = NetworkFailure THEN Thrown(NetworkError)
    ELSE IF ~fetched.ok THEN Thrown(Error(extractErrorMessage(fetched)))
    ELSE JSONparse(fetched.body)

AllCapabilities == [categories |-> TRUE, tags |-> TRUE, media |-> TRUE]

validateSiteConnection(connection, credentials, fetched) ==
    LET url == buildApiUrl(connection, UsersMe)
        user == fetchJson(url, credentials, fetched)
    IN  IF ~user.ok THEN user
        ELSE IF user.value = JNull THEN Thrown(TypeError)   \* user.name
        ELSE Returned([user |-> user.value, capabilities |-> AllCapabilities])

----------------------------------------------------------------------------
(* src/storage/sites.ts: reading the store *)

\* LocalStorage.getItem: !data holds for undefined and for ""
Missing(data) == data \in {Absent, EmptyText}

loadSiteMetadata(store) ==
    LET data == store[SITE_INDEX_KEY]
    IN  IF Missing(data) THEN JArray(<<>>)
        ELSE LET parsed == JSONparse(data)
             IN  IF parsed.ok THEN parsed.value ELSE JArray(<<>>)

\* as loadCredentials, with an empty record for a record that does not parse
loadCredentialsDefaulting(store, id) ==
    LET data == store[SecretKey(id)]
    IN  IF Missing(data) THEN Undefined
        ELSE LET parsed == JSONparse(data)
             IN  IF parsed.ok THEN parsed.value
                 ELSE [username |-> "", applicationPassword |-> "",
                       authStrategy |-> "application-password"]

loadCredentials(store, id) ==
    LET data == store[SecretKey(id)]
    IN  IF Missing(data) THEN Undefined
        ELSE LET parsed == JSONparse(data)
             IN  IF parsed.ok THEN parsed.value ELSE Undefined

\* metadata.findIndex((site) => site.id === id), 0 for -1
FindIndex(items, id) ==
    IF \E i \in 1..Len(items) : items[i].id = id
    THEN CHOOSE i \in 1..Len(items) :
            /\ items[i].id = id
            /\ \A j \in 1..(i - 1) : items[j].id # id
    ELSE 0

RECURSIVE FilterOut(_, _)
\* metadata.filter((entry) => entry.id !== id)
FilterOut(items, id) ==
    IF items = <<>> THEN <<>>
    ELSE IF Head(items).id # id THEN <<Head(items)>> \o FilterOut(Tail(items), id)
    ELSE FilterOut(Tail(items), id)

RECURSIVE PairCredentials(_, _)
\* the loop of getSites over the loaded metadata, against one store
PairCredentials(items, store) ==
    IF items = <<>> THEN <<>>
    ELSE LET site == Head(items)
             credentials == loadCredentials(store, site.id)
         IN  IF Falsy(credentials) THEN PairCredentials(Tail(items), store)
             ELSE <<Spread(site, [credentials |-> credentials])>>
                      \o PairCredentials(Tail(items), store)

\* getSites() run to completion against one store
getSites(store) ==
    LET metadata == loadSiteMetadata(store)
    IN  IF ~IsArray(metadata) THEN Thrown(TypeError)     \* not iterable
        ELSE Returned(PairCredentials(metadata.items, store))

\* getSite(id) run to completion against one store
getSite(store, id) ==
    LET metadata == loadSiteMetadata(store)
    IN  IF ~IsArray(metadata) THEN Thrown(TypeError)     \* find is not a function
        ELSE LET k == FindIndex(metadata.items, id)
             IN  IF k = 0 THEN Returned(Undefined)
                 ELSE LET credentials == loadCredentials(store, id)
                      IN  IF Falsy(credentials) THEN Returned(Undefined)
                          ELSE Returned(Spread(metadata.items[k],
                                               [credentials |-> credentials]))

\* as PutEntry, without the look-up of the id
PutEntryAppending(items, entry) == Append(items, entry)

\* insert-or-replace of saveSiteMetadata
PutEntry(items, entry) ==
    LET existingIndex == FindIndex(items, entry.id)
    IN  IF existingIndex = 0 THEN Append(items, entry)
        ELSE [items EXCEPT ![existingIndex] = entry]

----------------------------------------------------------------------------
(* The callers: src/manage-sites.tsx (handleSave, handleDelete, refreshSites) *)

FormValues ==
    { [name |-> "Blog", baseUrl |-> <<"h", "/">>,
       username |-> "alice", applicationPassword |-> "pw-alice"],
      \* the Validate Connection action spreads a whole profile into the input
      [name |-> "Shop", baseUrl |-> <<"h">>, restBase |-> <<"/", "/", "r">>,
       username |-> "bob", applicationPassword |-> "pw-bob",
       credentials |-> [username |-> "bob", applicationPassword |-> "pw-old",
                        authStrategy |-> "application-password"],
       validatedAt |-> toISOString(0)] }

\* the ids of the profiles the list shows: the ones that can be edited
VisibleIds(store) ==
    LET sites == getSites(store)
    IN  IF sites.ok THEN {sites.value[i].id : i \in 1..Len(sites.value)} ELSE {}

\* the ids a caller of removeSite or getSite can name
KnownIds(store) == StoredIds \cup VisibleIds(store)

\* handleSubmit: id is initialSite?.id
SiteInputs(store) ==
    FormValues
    \cup {Spread(v, [id |-> id]) : v \in FormValues, id \in VisibleIds(store)}

AllInputs ==
    FormValues \cup {Spread(v, [id |-> id]) : v \in FormValues, id \in AllIds}

----------------------------------------------------------------------------
(* State *)

StoragePcs == {"us_meta_get", "us_meta_set", "us_cred_set",
               "rs_get", "rs_set", "rs_remove",
               "gs_get", "gs_cred", "g_get", "g_cred"}

OpOf(at) ==
    CASE at \in {"us_validate", "us_meta_get", "us_meta_set", "us_cred_set"}
            -> "upsertSite"
      [] at \in {"rs_get", "rs_set", "rs_remove"} -> "removeSite"
      [] at \in {"gs_get", "gs_cred"} -> "getSites"
      [] at \in {"g_get", "g_cred"} -> "getSite"
      [] OTHER -> "none"

NoLocal == [none |-> TRUE]

EmptyStore == [k \in Keys |-> Absent]

\* What an earlier session, or anything else with access to the store, may
\* have left under the index key and under the credential key of a stored id
StoredNames == {"Old"}
StoredEntry(id, name) ==
    [id |-> id, name |-> name, baseUrl |-> <<"h">>, restBase |-> DefaultRestBase,
     capabilities |-> AllCapabilities, validatedAt |-> toISOString(0)]
StoredEntries == {StoredEntry(id, n) : id \in StoredIds, n \in StoredNames}
StoredCredentials ==
    [username |-> "carol", applicationPassword |-> "pw-carol",
     authStrategy |-> "application-password"]

StoredArrays ==
    UNION {[1..n -> StoredEntries] : n \in 0..MaxStored}

IndexContents ==
    {Absent, EmptyText, Garbage, JSONstringify(JNull), JSONstringify(JNumber),
     JSONstringify(JObject)}
    \cup {JSONstringify(JArray(a)) : a \in StoredArrays}

SecretContents ==
    {Absent, Garbage, JSONstringify(JNull), JSONstringify(JNumber),
     JSONstringify(StoredCredentials)}

AnyStores ==
    {[k \in Keys |-> IF k = SITE_INDEX_KEY THEN index
                     ELSE IF k \in DOMAIN secrets THEN secrets[k] ELSE Absent] :
        index \in IndexContents,
        secrets \in [{SecretKey(id) : id \in StoredIds} -> SecretContents]}

InitWith(stores, envs) ==
    /\ LocalStorage \in stores
    /\ env \in envs
    /\ now = 0
    /\ uuidCount = 0
    /\ pc = [p \in Procs |-> "idle"]
    /\ input = [p \in Procs |-> NoLocal]
    /\ local = [p \in Procs |-> NoLocal]
    /\ calls = 0
    /\ validated = {}

\* a fresh installation, calls interleaving, storage operations may reject
Init == InitWith({EmptyStore}, {[interleave |-> TRUE, faults |-> TRUE]})

\* any stored content, one call at a time, storage operations may reject
InitAny == InitWith(AnyStores, {[interleave |-> FALSE, faults |-> TRUE]})

\* a call made while no other call is running runs as the main process; the
\* other process runs a call made while the main process has one running
MainProc == "p1"

\* a call that has settled ends before anything else happens: the
\* continuation of its caller runs as soon as the promise settles
NoneSettled == \A q \in Procs : pc[q] \notin {"done", "failed"}

MayStart(p) ==
    /\ pc[p] = "idle"
    /\ NoneSettled
    /\ calls < MaxCalls
    /\ p = MainProc \/ (env.interleave /\ pc[MainProc] # "idle")

Begin(p, arg, first, locals) ==
    /\ pc' = [pc EXCEPT ![p] = first]
    /\ input' = [input EXCEPT ![p] = arg]
    /\ local' = [local EXCEPT ![p] = locals]
    /\ calls' = calls + 1
    /\ UNCHANGED <<validated, env>>

\* the readings the wall clock may give: not before its last reading
Clock == now..MaxClock

GotoAt(p, next, locals, t) ==
    /\ NoneSettled
    /\ pc' = [pc EXCEPT ![p] = next]
    /\ local' = [local EXCEPT ![p] = locals]
    /\ now' = t
    /\ UNCHANGED <<input, uuidCount, calls, env>>

Goto(p, next, locals) == GotoAt(p, next, locals, now)

\* the promise of the call resolves
Resolve(p, value) ==
    Goto(p, "done", [op |-> OpOf(pc[p]), result |-> value])

\* the promise of the call rejects
Failure(at, e) == [op |-> OpOf(at), error |-> e, at |-> at]
Reject(p, e) == Goto(p, "failed", Failure(pc[p], e))

SetItem(key, data) == LocalStorage' = [LocalStorage EXCEPT ![key] = data]

RemoveItem(key) == LocalStorage' = [LocalStorage EXCEPT ![key] = Absent]

----------------------------------------------------------------------------
(* upsertSite *)

\* as UpsertCall, with the credentials saved before they are validated
UpsertCallSavingCredentials(p, in) ==
    /\ MayStart(p)
    /\ in \in SiteInputs(LocalStorage)
    /\ ("id" \notin DOMAIN in) => (uuidCount < MaxUuid)
    /\ LET id == IF "id" \in DOMAIN in THEN in.id ELSE randomUUID
           credentials == [username |-> in.username,
                           applicationPassword |-> in.applicationPassword,
                           authStrategy |-> "application-password"]
       IN  /\ \E t \in Clock :
                 /\ Begin(p, in, "us_validate",
                          [id |-> id,
                           callTime |-> t,
                           connection |-> [baseUrl |-> normalizeBaseUrl(in.baseUrl),
                                           restBase |-> normalizeRestBase(in)],
                           credentials |-> credentials])
                 /\ now' = t
           /\ SetItem(SecretKey(id), JSONstringify(credentials))
    /\ uuidCount' = IF "id" \in DOMAIN in THEN uuidCount ELSE uuidCount + 1

\* lines 59-70: up to the await of validateSiteConnection
UpsertCall(p, in) ==
    /\ MayStart(p)
    /\ in \in SiteInputs(LocalStorage)
    /\ ("id" \notin DOMAIN in) => (uuidCount < MaxUuid)
    /\ LET id == IF "id" \in DOMAIN in THEN in.id ELSE randomUUID
           normalizedBase == normalizeBaseUrl(in.baseUrl)
           normalizedRest == normalizeRestBase(in)
           credentials == [username |-> in.username,
                           applicationPassword |-> in.applicationPassword,
                           authStrategy |-> "application-password"]
       IN  \E t \in Clock :
              /\ Begin(p, in, "us_validate",
                       [id |-> id,
                        callTime |-> t,
                        connection |-> [baseUrl |-> normalizedBase,
                                        restBase |-> normalizedRest],
                        credentials |-> credentials])
              /\ now' = t
    /\ uuidCount' = IF "id" \in DOMAIN in THEN uuidCount ELSE uuidCount + 1
    /\ UNCHANGED LocalStorage

\* as metadataEntryOf, built by spreading the input
metadataEntryOfSpreadInput(in, l, validation, t) ==
    Spread(in,
           [id |-> l.id,
            name |-> in.name,
            baseUrl |-> l.connection.baseUrl,
            restBase |-> l.connection.restBase,
            capabilities |-> validation.capabilities,
            validatedAt |-> toISOString(t)])

\* lines 72-79
metadataEntryOf(in, l, validation, t) ==
    [id |-> l.id,
     name |-> in.name,
     baseUrl |-> l.connection.baseUrl,
     restBase |-> l.connection.restBase,
     capabilities |-> validation.capabilities,
     validatedAt |-> toISOString(t)]

\* as UpsertValidated, with the credentials saved whatever the validation says
UpsertValidatedSavingCredentials(p, fetched) ==
    /\ pc[p] = "us_validate"
    /\ fetched \in Responses
    /\ LET l == local[p]
           validation == validateSiteConnection(l.connection, l.credentials, fetched)
       IN  IF validation.ok
           THEN /\ \E t \in Clock :
                     GotoAt(p, "us_meta_get",
                            [id |-> l.id, callTime |-> l.callTime,
                             credentials |-> l.credentials,
                             fetched |-> fetched,
                             validation |-> validation.value,
                             metadataEntry |->
                                 metadataEntryOf(input[p], l, validation.value, t)],
                            t)
                /\ validated' = validated \cup
                        {[id |-> l.id, connection |-> l.connection,
                          credentials |-> l.credentials]}
           ELSE /\ Goto(p, "failed", Spread(Failure(pc[p], validation.error),
                                            [fetched |-> fetched]))
                /\ UNCHANGED validated
    /\ SetItem(SecretKey(local[p].id), JSONstringify(local[p].credentials))

\* lines 70-81: the validation request returns; on success the metadata
\* entry is built and saveSiteMetadata awaits getItem
UpsertValidated(p, fetched) ==
    /\ pc[p] = "us_validate"
    /\ fetched \in Responses
    /\ LET l == local[p]
           validation == validateSiteConnection(l.connection, l.credentials, fetched)
       IN  IF validation.ok
           THEN /\ \E t \in Clock :
                     GotoAt(p, "us_meta_get",
                            [id |-> l.id, callTime |-> l.callTime,
                             credentials |-> l.credentials,
                             fetched |-> fetched,
                             validation |-> validation.value,
                             metadataEntry |->
                                 metadataEntryOf(input[p], l, validation.value, t)],
                            t)
                /\ validated' = validated \cup
                        {[id |-> l.id, connection |-> l.connection,
                          credentials |-> l.credentials]}
           ELSE /\ Goto(p, "failed", Spread(Failure(pc[p], validation.error),
                                            [fetched |-> fetched]))
                /\ UNCHANGED validated
    /\ UNCHANGED LocalStorage

\* saveSiteMetadata, lines 119-128: getItem returns; the entry is put into
\* the loaded array and setItem is awaited
UpsertMetaLoaded(p) ==
    /\ pc[p] = "us_meta_get"
    /\ LET metadata == loadSiteMetadata(LocalStorage)
       IN  IF IsArray(metadata)
           THEN Goto(p, "us_meta_set",
                     Spread(local[p],
                            [metadata |-> JArray(PutEntry(metadata.items,
                                                          local[p].metadataEntry))]))
           ELSE Reject(p, TypeError)       \* findIndex is not a function
    /\ UNCHANGED <<LocalStorage, validated>>

\* saveSiteMetadata, line 128: setItem of the index takes effect;
\* saveCredentials awaits its setItem
UpsertMetaSaved(p) ==
    /\ pc[p] = "us_meta_set"
    /\ SetItem(SITE_INDEX_KEY, JSONstringify(local[p].metadata))
    /\ Goto(p, "us_cred_set",
            [id |-> local[p].id, callTime |-> local[p].callTime,
             credentials |-> local[p].credentials,
             fetched |-> local[p].fetched,
             validation |-> local[p].validation,
             metadataEntry |-> local[p].metadataEntry])
    /\ UNCHANGED validated

\* as UpsertCredSaved, keeping a credential record that is already stored
UpsertCredSavedKeeping(p) ==
    /\ pc[p] = "us_cred_set"
    /\ IF LocalStorage[SecretKey(local[p].id)] = Absent
       THEN SetItem(SecretKey(local[p].id), JSONstringify(local[p].credentials))
       ELSE UNCHANGED LocalStorage
    /\ Resolve(p, Spread(local[p].metadataEntry,
                         [credentials |-> local[p].credentials]))
    /\ UNCHANGED validated

\* saveCredentials, line 132, and the return of line 84
UpsertCredSaved(p) ==
    /\ pc[p] = "us_cred_set"
    /\ SetItem(SecretKey(local[p].id), JSONstringify(local[p].credentials))
    /\ Resolve(p, Spread(local[p].metadataEntry,
                         [credentials |-> local[p].credentials]))
    /\ UNCHANGED validated

----------------------------------------------------------------------------
(* removeSite *)

RemoveCall(p, id) ==
    /\ MayStart(p)
    /\ id \in KnownIds(LocalStorage)
    /\ Begin(p, [id |-> id], "rs_get", [id |-> id])
    /\ UNCHANGED <<LocalStorage, now, uuidCount>>

\* as RemoveLoaded, returning before anything is removed
RemoveLoadedReturning(p) ==
    /\ pc[p] = "rs_get"
    /\ Resolve(p, Undefined)
    /\ UNCHANGED <<LocalStorage, validated>>

\* lines 88-90: getItem returns, the array is filtered, setItem is awaited
RemoveLoaded(p) ==
    /\ pc[p] = "rs_get"
    /\ LET metadata == loadSiteMetadata(LocalStorage)
       IN  IF IsArray(metadata)
           THEN Goto(p, "rs_set",
                     [id |-> local[p].id,
                      filtered |-> JArray(FilterOut(metadata.items, local[p].id))])
           ELSE Reject(p, TypeError)       \* filter is not a function
    /\ UNCHANGED <<LocalStorage, validated>>

\* line 90: setItem of the index takes effect; removeItem is awaited
RemoveMetaSaved(p) ==
    /\ pc[p] = "rs_set"
    /\ SetItem(SITE_INDEX_KEY, JSONstringify(local[p].filtered))
    /\ Goto(p, "rs_remove", [id |-> local[p].id])
    /\ UNCHANGED validated

\* as RemoveCredRemoved, with the credential record left where it is
RemoveCredRemovedKeeping(p) ==
    /\ pc[p] = "rs_remove"
    /\ Resolve(p, Undefined)
    /\ UNCHANGED <<LocalStorage, validated>>

\* line 91: removeItem takes effect
RemoveCredRemoved(p) ==
    /\ pc[p] = "rs_remove"
    /\ RemoveItem(SecretKey(local[p].id))
    /\ Resolve(p, Undefined)
    /\ UNCHANGED validated

----------------------------------------------------------------------------
(* getSites and getSite, one await at a time *)

GetSitesCall(p) ==
    /\ MayStart(p)
    /\ Begin(p, NoLocal, "gs_get", NoLocal)
    /\ UNCHANGED <<LocalStorage, now, uuidCount>>

\* line 35: the metadata is loaded; the loop awaits the first credentials
GetSitesLoaded(p) ==
    /\ pc[p] = "gs_get"
    /\ LET metadata == loadSiteMetadata(LocalStorage)
       IN  IF ~IsArray(metadata) THEN Reject(p, TypeError)
           ELSE IF metadata.items = <<>> THEN Resolve(p, <<>>)
           ELSE Goto(p, "gs_cred", [metadata |-> metadata.items, sites |-> <<>>])
    /\ UNCHANGED <<LocalStorage, validated>>

\* lines 38-42: one turn of the loop
GetSitesPaired(p) ==
    /\ pc[p] = "gs_cred"
    /\ LET rest == Tail(local[p].metadata)
           sites == local[p].sites
                        \o PairCredentials(<<Head(local[p].metadata)>>, LocalStorage)
       IN  IF rest = <<>> THEN Resolve(p, sites)
           ELSE Goto(p, "gs_cred", [metadata |-> rest, sites |-> sites])
    /\ UNCHANGED <<LocalStorage, validated>>

GetSiteCall(p, id) ==
    /\ MayStart(p)
    /\ id \in KnownIds(LocalStorage)
    /\ Begin(p, [id |-> id], "g_get", [id |-> id])
    /\ UNCHANGED <<LocalStorage, now, uuidCount>>

\* lines 48-52
GetSiteLoaded(p) ==
    /\ pc[p] = "g_get"
    /\ LET metadata == loadSiteMetadata(LocalStorage)
       IN  IF ~IsArray(metadata) THEN Reject(p, TypeError)
           ELSE LET k == FindIndex(metadata.items, local[p].id)
                IN  IF k = 0 THEN Resolve(p, Undefined)
                    ELSE Goto(p, "g_cred",
                              [id |-> local[p].id, site |-> metadata.items[k]])
    /\ UNCHANGED <<LocalStorage, validated>>

\* lines 52-55
GetSitePaired(p) ==
    /\ pc[p] = "g_cred"
    /\ LET credentials == loadCredentials(LocalStorage, local[p].id)
       IN  IF Falsy(credentials) THEN Resolve(p, Undefined)
           ELSE Resolve(p, Spread(local[p].site, [credentials |-> credentials]))
    /\ UNCHANGED <<LocalStorage, validated>>

----------------------------------------------------------------------------
(* Environment *)

\* a getItem, setItem or removeItem promise rejects; the awaiting call fails
StorageRejected(p) ==
    /\ env.faults
    /\ pc[p] \in StoragePcs
    /\ Reject(p, StorageError)
    /\ UNCHANGED <<LocalStorage, validated>>

\* the caller has taken the outcome of the promise
Return(p) ==
    /\ pc[p] \in {"done", "failed"}
    /\ pc' = [pc EXCEPT ![p] = "idle"]
    /\ input' = [input EXCEPT ![p] = NoLocal]
    /\ local' = [local EXCEPT ![p] = NoLocal]
    /\ UNCHANGED <<LocalStorage, now, uuidCount, calls, validated, env>>

\* the steps of the calls when no storage operation rejects
Steps ==
    \/ \E p \in Procs : \E in \in AllInputs : UpsertCall(p, in)
    \/ \E p \in Procs : \E fetched \in Responses : UpsertValidated(p, fetched)
    \/ \E p \in Procs : UpsertMetaLoaded(p)
    \/ \E p \in Procs : UpsertMetaSaved(p)
    \/ \E p \in Procs : UpsertCredSaved(p)
    \/ \E p \in Procs : \E id \in AllIds : RemoveCall(p, id)
    \/ \E p \in Procs : RemoveLoaded(p)
    \/ \E p \in Procs : RemoveMetaSaved(p)
    \/ \E p \in Procs : RemoveCredRemoved(p)
    \/ \E p \in Procs : GetSitesCall(p)
    \/ \E p \in Procs : GetSitesLoaded(p)
    \/ \E p \in Procs : GetSitesPaired(p)
    \/ \E p \in Procs : \E id \in AllIds : GetSiteCall(p, id)
    \/ \E p \in Procs : GetSiteLoaded(p)
    \/ \E p \in Procs : GetSitePaired(p)
    \/ \E p \in Procs : Return(p)

Next ==
    \/ Steps
    \/ \E p \in Procs : StorageRejected(p)

Spec == Init /\ [][Next]_vars

SpecAny == InitAny /\ [][Next]_vars

\* a fresh installation, one call at a time, no storage operation rejects
InitSeq == InitWith({EmptyStore}, {[interleave |-> FALSE, faults |-> FALSE]})

SpecSeq == InitSeq /\ [][Steps]_vars

\* Two sites stored and validated by an earlier session, in either order
StoredConnection == [baseUrl |-> <<"h">>, restBase |-> DefaultRestBase]
StoredValidations ==
    {[id |-> id, connection |-> StoredConnection, credentials |-> StoredCredentials] :
        id \in StoredIds \cup OtherIds}
StoredStores ==
    {[k \in Keys |->
        IF k = SITE_INDEX_KEY THEN JSONstringify(JArray(a))
        ELSE IF k \in {SecretKey(id) : id \in StoredIds \cup OtherIds}
             THEN JSONstringify(StoredCredentials)
             ELSE Absent] :
        a \in {b \in [1..2 -> {StoredEntry(id, "Old") : id \in StoredIds \cup OtherIds}] :
                  b[1] # b[2]}}

InitStored ==
    /\ LocalStorage \in StoredStores
    /\ env = [interleave |-> TRUE, faults |-> FALSE]
    /\ now = 0
    /\ uuidCount = 0
    /\ pc = [p \in Procs |-> "idle"]
    /\ input = [p \in Procs |-> NoLocal]
    /\ local = [p \in Procs |-> NoLocal]
    /\ calls = 0
    /\ validated = StoredValidations

\* the edit form of one stored site, submitted any number of times
SameIdInputs == {Spread(v, [id |-> id]) : v \in FormValues, id \in StoredIds}

\* calls of upsertSite for one stored id, interleaving
NextSameId ==
    \/ \E p \in Procs : \E in \in SameIdInputs : UpsertCall(p, in)
    \/ \E p \in Procs : \E fetched \in Responses : UpsertValidated(p, fetched)
    \/ \E p \in Procs : UpsertMetaLoaded(p)
    \/ \E p \in Procs : UpsertMetaSaved(p)
    \/ \E p \in Procs : UpsertCredSaved(p)
    \/ \E p \in Procs : Return(p)

SpecSameId == InitStored /\ [][NextSameId]_vars

----------------------------------------------------------------------------
(* The exported functions of src/api/wordpress.ts called on their own *)

Strings(alphabet) == UNION {[1..n -> alphabet] : n \in 0..MaxLen}

ExampleBaseUrl ==
    <<"h", "t", "t", "p", "s", ":", "/", "/", "x", ".", "c", "o", "m", "/">>
ExampleRoute == <<"/", "p", "o", "s", "t", "s">>
ExampleConnection == [baseUrl |-> ExampleBaseUrl, restBase |-> DefaultRestBase]

\* restBase?: string
RestBaseArgs ==
    {[baseUrl |-> <<"h">>]}
    \cup {[baseUrl |-> <<"h">>, restBase |-> r] : r \in Strings({Slash, " ", "w"})}

ConnectionArgs ==
    {ExampleConnection}
    \cup {[baseUrl |-> b] : b \in Strings({"h", Slash})}
    \cup {[baseUrl |-> b, restBase |-> r] :
            b \in Strings({"h", Slash}), r \in Strings({Slash, " ", "w"})}

RouteArgs == {ExampleRoute} \cup Strings({Slash, "p"})

Statuses == {199, 200, 204, 299, 300, 401, 404, 500}
Bodies ==
    {Garbage, EmptyText, JSONstringify(JNull), JSONstringify(JNumber),
     JSONstringify(WPUser),
     JSONstringify([message |-> "bad password"]),
     JSONstringify([message |-> ""]),
     JSONstringify([code |-> "rest_forbidden"]),
     JSONstringify([code |-> "rest_forbidden", message |-> "forbidden"])}
FetcherArgs ==
    {NetworkFailure}
    \cup {Response(st, "Status", b) : st \in Statuses, b \in Bodies}

FunctionCalls ==
    {[fn |-> "normalizeRestBase", connection |-> c] : c \in RestBaseArgs}
    \cup {[fn |-> "buildApiUrl", connection |-> c, route |-> r] :
            c \in ConnectionArgs, r \in RouteArgs}
    \cup {[fn |-> "fetchJson", fetched |-> f] : f \in FetcherArgs}

\* one call of one function, with any arguments
InitFunctions ==
    /\ LocalStorage = EmptyStore
    /\ env = [interleave |-> FALSE, faults |-> FALSE]
    /\ now = 0
    /\ uuidCount = 0
    /\ pc = [p \in Procs |-> "idle"]
    /\ \E call \in FunctionCalls :
          input = [p \in Procs |-> IF p = MainProc THEN call ELSE NoLocal]
    /\ local = [p \in Procs |-> NoLocal]
    /\ calls = 0
    /\ validated = {}

Apply(p, fn, outcome) ==
    /\ pc[p] = "idle"
    /\ "fn" \in DOMAIN input[p]
    /\ input[p].fn = fn
    /\ pc' = [pc EXCEPT ![p] = "done"]
    /\ local' = [local EXCEPT ![p] = [op |-> fn, result |-> outcome]]
    /\ calls' = calls + 1
    /\ UNCHANGED <<LocalStorage, now, uuidCount, input, validated, env>>

NormalizeRestBaseApply(p) ==
    /\ "fn" \in DOMAIN input[p]
    /\ input[p].fn = "normalizeRestBase"
    /\ Apply(p, "normalizeRestBase", normalizeRestBase(input[p].connection))

BuildApiUrlApply(p) ==
    /\ "fn" \in DOMAIN input[p]
    /\ input[p].fn = "buildApiUrl"
    /\ Apply(p, "buildApiUrl", buildApiUrl(input[p].connection, input[p].route))

FetchJsonApply(p) ==
    /\ "fn" \in DOMAIN input[p]
    /\ input[p].fn = "fetchJson"
    /\ Apply(p, "fetchJson",
             fetchJson(buildApiUrl(ExampleConnection, UsersMe),
                       StoredCredentials, input[p].fetched))

NextFunctions ==
    \/ \E p \in Procs : NormalizeRestBaseApply(p)
    \/ \E p \in Procs : BuildApiUrlApply(p)
    \/ \E p \in Procs : FetchJsonApply(p)

SpecFunctions == InitFunctions /\ [][NextFunctions]_vars

TypeOK ==
    /\ DOMAIN LocalStorage = Keys
    /\ now \in 0..MaxClock
    /\ uuidCount \in 0..MaxUuid
    /\ \A p \in Procs : pc[p] \in {"idle", "us_validate", "done", "failed"} \cup StoragePcs

----------------------------------------------------------------------------
(* Properties *)

UpsertPcs == {"us_validate", "us_meta_get", "us_meta_set", "us_cred_set"}

\* the entries of the stored metadata collection
Entries(store) ==
    LET metadata == loadSiteMetadata(store)
    IN  IF IsArray(metadata) THEN metadata.items ELSE <<>>

EntryIds(store) == {Entries(store)[i].id : i \in 1..Len(Entries(store))}

\* the ids that have something under their credential key
SecretIds(store) == {id \in AllIds : store[SecretKey(id)] # Absent}

Stepped(p) == pc'[p] # pc[p]

\* C1: a call of upsertSite whose validation fails rejects with the error of
\* the validation, and none of its steps changes the storage, for an input
\* without an id as for an input with the id of a stored site.
C1_FailedValidationLeavesStorage ==
    [][\A p \in Procs :
        /\ (pc[p] = "idle" /\ pc'[p] = "us_validate")
              => LocalStorage' = LocalStorage
        /\ (pc[p] = "us_validate" /\ Stepped(p))
              => LET validation ==
                         validateSiteConnection(local[p].connection,
                                                local[p].credentials,
                                                local'[p].fetched)
                 IN  IF validation.ok THEN pc'[p] = "us_meta_get"
                     ELSE /\ pc'[p] = "failed"
                          /\ local'[p].error = validation.error
                          /\ LocalStorage' = LocalStorage]_vars

FailedValidation(p) ==
    /\ pc[p] = "failed"
    /\ local[p].at = "us_validate"

C1_Witness ==
    \E q \in Procs :
        /\ FailedValidation(q) /\ "id" \in DOMAIN input[q]
        /\ input[q].id \in VisibleIds(LocalStorage)
        /\ local[q].error = Error(BodyMessage("bad password"))

\* C10: a call of upsertSite writes to the storage only once its own
\* validation request has returned successfully, and every write of the
\* metadata collection leaves in it only entries of a site and connection
\* that a successful validation request was made for.
C10_WritesFollowValidation ==
    [][/\ \A p \in Procs :
            ((pc[p] \in UpsertPcs \/ pc'[p] \in UpsertPcs)
                /\ Stepped(p) /\ LocalStorage' # LocalStorage)
               => /\ "validation" \in DOMAIN local[p]
                  /\ validateSiteConnection([baseUrl |-> local[p].metadataEntry.baseUrl,
                                             restBase |-> local[p].metadataEntry.restBase],
                                            local[p].credentials,
                                            local[p].fetched).ok
       /\ (LocalStorage'[SITE_INDEX_KEY] # LocalStorage[SITE_INDEX_KEY])
             => \A i \in 1..Len(Entries(LocalStorage')) :
                   LET e == Entries(LocalStorage')[i]
                   IN  /\ e.capabilities = AllCapabilities
                       /\ DateParse(e.validatedAt) <= now'
                       /\ \E v \in validated' :
                             /\ v.id = e.id
                             /\ v.connection = [baseUrl |-> e.baseUrl,
                                                restBase |-> e.restBase]
      ]_vars

C10_Witness ==
    \E p \in Procs :
        /\ pc[p] = "us_cred_set"
        /\ Len(Entries(LocalStorage)) = 2
        /\ SecretIds(LocalStorage) # {}

NoDuplicateIds(items) ==
    \A i, j \in 1..Len(items) : (items[i].id = items[j].id) => (i = j)

\* C6: from an empty store, however the calls of upsertSite and removeSite
\* interleave, no two entries of the stored metadata collection have the same
\* id, and an upsertSite given an id returns and stores that id.
C6_IdsUnique ==
    /\ NoDuplicateIds(Entries(LocalStorage))
    /\ \A p \in Procs :
          (pc[p] = "done" /\ local[p].op = "upsertSite" /\ "id" \in DOMAIN input[p])
             => local[p].result.id = input[p].id
    /\ \A p \in Procs :
          (pc[p] \in UpsertPcs /\ "id" \in DOMAIN input[p] /\ "metadataEntry" \in DOMAIN local[p])
             => local[p].metadataEntry.id = input[p].id

C6_Witness ==
    \E p \in Procs :
        /\ pc[p] = "done" /\ local[p].op = "upsertSite"
        /\ "id" \in DOMAIN input[p]
        /\ \E i \in 1..Len(Entries(LocalStorage)) :
              /\ Entries(LocalStorage)[i].id = input[p].id
              /\ Entries(LocalStorage)[i] = [f \in DOMAIN Entries(LocalStorage)[i] |-> local[p].result[f]]
        /\ Len(Entries(LocalStorage)) = 1

SecretFields == {"username", "applicationPassword", "credentials"}
SecretTexts == {v.applicationPassword : v \in FormValues}
                  \cup {v.username : v \in FormValues}

\* C4: no entry of the stored metadata collection has a field holding a user
\* name, an application password or a credential record, also when the input
\* of upsertSite carries more fields than a SiteInput.
C4_NoCredentialsInMetadata ==
    \A i \in 1..Len(Entries(LocalStorage)) :
        LET e == Entries(LocalStorage)[i]
        IN  /\ DOMAIN e \cap SecretFields = {}
            /\ e.name \notin SecretTexts

C4_Witness ==
    /\ \E i \in 1..Len(Entries(LocalStorage)) : Entries(LocalStorage)[i].name = "Shop"
    /\ \E p \in Procs :
          /\ pc[p] = "done" /\ local[p].op = "upsertSite"
          /\ "credentials" \in DOMAIN input[p]
          /\ LocalStorage[SecretKey(local[p].result.id)]
                = JSONstringify(local[p].result.credentials)

IsCredentialRecord(data) ==
    /\ data.kind = "json"
    /\ {"username", "applicationPassword"} \subseteq DOMAIN data.value

\* C3: no key of LocalStorage holds a record of a user name and an application
\* password (docs/context.md: "Never store secrets in LocalStorage").
C3_NoSecretsInLocalStorage ==
    \A k \in Keys : ~IsCredentialRecord(LocalStorage[k])

\* the metadata fields of a profile are those of the entry
SameMetadata(profile, entry) == entry = [f \in DOMAIN entry |-> profile[f]]

\* the profile pairs an entry of the metadata collection with the parsed
\* content of the credential key of its id
Paired(profile, store) ==
    /\ \E k \in 1..Len(Entries(store)) : SameMetadata(profile, Entries(store)[k])
    /\ store[SecretKey(profile.id)].kind = "json"
    /\ profile.credentials = store[SecretKey(profile.id)].value

Unpaired(store, id) == store[SecretKey(id)] \in {Absent, EmptyText, Garbage}

Settled(p, name) == pc[p] = "done" /\ local[p].op = name

\* C2: whatever the store holds, every profile that getSites or getSite
\* returns pairs an entry of the metadata collection with the parsed content
\* of the credential key of the same id; an entry whose credential record is
\* missing or does not parse is left out, and that raises no error.
C2_ProfilesArePaired ==
    \A p \in Procs :
        /\ Settled(p, "getSites")
              => /\ \A i \in 1..Len(local[p].result) :
                        Paired(local[p].result[i], LocalStorage)
                 /\ \A k \in 1..Len(Entries(LocalStorage)) :
                        Unpaired(LocalStorage, Entries(LocalStorage)[k].id)
                           => \A i \in 1..Len(local[p].result) :
                                 local[p].result[i].id # Entries(LocalStorage)[k].id
        /\ Settled(p, "getSite")
              => /\ local[p].result # Undefined
                       => /\ Paired(local[p].result, LocalStorage)
                          /\ local[p].result.id = input[p].id
                 /\ Unpaired(LocalStorage, input[p].id)
                       => local[p].result = Undefined
        /\ (pc[p] = "failed" /\ local[p].at \in {"gs_cred", "g_cred"})
              => local[p].error = StorageError

C2_Witness ==
    \E p \in Procs :
        /\ Settled(p, "getSites")
        /\ Len(local[p].result) = 1
        /\ Len(Entries(LocalStorage)) = 2
        /\ \E k \in 1..2 : LocalStorage[SecretKey(Entries(LocalStorage)[k].id)] = Absent
        /\ \E k \in 1..2 : Entries(LocalStorage)[k].id \in Uuids

\* C5: no call of getSites, getSite, upsertSite or removeSite fails because
\* of what is stored under the index key or a credential key: a call fails
\* only in its validation or when a storage operation rejects.
C5_StoredContentNeverFails ==
    \A p \in Procs :
        pc[p] = "failed"
           => (local[p].at = "us_validate" \/ local[p].error = StorageError)

\* C8: when removeSite(id) has completed and no other call has run since,
\* getSite(id) is absent and getSites has no profile of that id, whatever the
\* store held before.
C8_RemovedSiteIsGone ==
    \A p \in Procs :
        Settled(p, "removeSite")
           => /\ getSite(LocalStorage, input[p].id) = Returned(Undefined)
              /\ getSites(LocalStorage).ok
              /\ \A i \in 1..Len(getSites(LocalStorage).value) :
                    getSites(LocalStorage).value[i].id # input[p].id

C8_Witness ==
    \E p \in Procs :
        /\ Settled(p, "removeSite")
        /\ input[p].id \in {v.id : v \in validated}
        /\ input[p].id \notin EntryIds(LocalStorage) \cup SecretIds(LocalStorage)
        /\ Len(getSites(LocalStorage).value) = 1

\* C7: upsertSite of an input without id, once validated, returns a profile
\* whose id was not stored before the call and whose validatedAt is not
\* earlier than the call, and getSites called when it returns has a profile of
\* that id.
C7_NewSiteIsListed ==
    [][\A p \in Procs :
        /\ (pc[p] = "idle" /\ pc'[p] = "us_validate" /\ "id" \notin DOMAIN input'[p])
              => local'[p].id \notin EntryIds(LocalStorage) \cup SecretIds(LocalStorage)
        /\ (pc[p] = "us_cred_set" /\ pc'[p] = "done" /\ "id" \notin DOMAIN input[p])
              => LET profile == local'[p].result
                     sites == getSites(LocalStorage')
                 IN  /\ profile.id = local[p].id
                     /\ DateParse(profile.validatedAt) >= local[p].callTime
                     /\ sites.ok
                     /\ \E i \in 1..Len(sites.value) : sites.value[i].id = profile.id
      ]_vars

\* C9: getSite(result.id) called when upsertSite returns result yields a
\* profile equal to result.
C9_RoundTrip ==
    [][\A p \in Procs :
        (pc[p] = "us_cred_set" /\ pc'[p] = "done")
           => getSite(LocalStorage', local'[p].result.id) = Returned(local'[p].result)
      ]_vars

----------------------------------------------------------------------------
(* Properties of the functions of src/api/wordpress.ts *)

OnlySpaces(s) == \A i \in 1..Len(s) : s[i] = " "

\* the number of slashes a string begins with
LeadingSlashes(s) ==
    CHOOSE n \in 0..Len(s) :
        /\ \A i \in 1..n : s[i] = Slash
        /\ n < Len(s) => s[n + 1] # Slash

WithoutLeadingSlashes(s) == SubSeq(s, LeadingSlashes(s) + 1, Len(s))

WithoutOneTrailingSlash(s) ==
    IF Len(s) > 0 /\ s[Len(s)] = Slash THEN SubSeq(s, 1, Len(s) - 1) ELSE s

\* C11: for every non-empty restBase, normalizeRestBase returns a string that
\* starts and ends with "/" and begins with exactly one "/".
C11_RestBaseHasOneLeadingSlash ==
    \A p \in Procs :
        (/\ Settled(p, "normalizeRestBase")
         /\ "restBase" \in DOMAIN input[p].connection
         /\ input[p].connection.restBase # <<>>)
           => LET r == local[p].result
              IN  /\ Len(r) >= 1
                  /\ r[1] = Slash
                  /\ r[Len(r)] = Slash
                  /\ Len(r) >= 2 => r[2] # Slash

\* C12: for a restBase that is not absent, empty or made of spaces only,
\* normalizeRestBase returns a string that ends with exactly one "/"; for an
\* absent, empty or blank restBase it returns "/wp-json/wp/v2/".
C12_RestBaseHasOneTrailingSlash ==
    \A p \in Procs :
        Settled(p, "normalizeRestBase")
           => LET c == input[p].connection
                  r == local[p].result
              IN  IF "restBase" \notin DOMAIN c \/ OnlySpaces(c.restBase)
                  THEN r = DefaultRestBase
                  ELSE /\ Len(r) >= 1
                       /\ r[Len(r)] = Slash
                       /\ Len(r) >= 2 => r[Len(r) - 1] # Slash

ExampleUrl ==
    <<"h", "t", "t", "p", "s", ":", "/", "/", "x", ".", "c", "o", "m",
      "/", "w", "p", "-", "j", "s", "o", "n", "/", "w", "p", "/", "v", "2", "/",
      "p", "o", "s", "t", "s">>

\* C13: buildApiUrl(connection, route) is the base URL without one trailing
\* slash, then normalizeRestBase(connection.restBase), then the route without
\* its leading slashes; "https://x.com/", "/wp-json/wp/v2/" and "/posts" give
\* "https://x.com/wp-json/wp/v2/posts".
C13_ApiUrlIsConcatenation ==
    \A p \in Procs :
        Settled(p, "buildApiUrl")
           => /\ local[p].result =
                    WithoutOneTrailingSlash(input[p].connection.baseUrl)
                       \o normalizeRestBase(input[p].connection)
                       \o WithoutLeadingSlashes(input[p].route)
              /\ (input[p].connection = ExampleConnection
                      /\ input[p].route = ExampleRoute)
                    => local[p].result = ExampleUrl

C13_Witness ==
    \E p \in Procs :
        /\ Settled(p, "buildApiUrl")
        /\ input[p].connection = ExampleConnection
        /\ input[p].route = ExampleRoute
        /\ local[p].result = ExampleUrl

\* C15: for every response whose status is not 2xx fetchJson throws an Error;
\* its message is the message field of the body when the body is JSON with a
\* non-empty message, and the status and status text otherwise; it is never
\* the error of parsing the body.
C15_ErrorMessageOfResponse ==
    \A p \in Procs :
        (/\ Settled(p, "fetchJson")
         /\ input[p].fetched # NetworkFailure
         /\ input[p].fetched.status \notin 200..299)
           => LET r == input[p].fetched
                  hasMessage ==
                      /\ r.body.kind = "json"
                      /\ "message" \in DOMAIN r.body.value
                      /\ r.body.value.message # ""
              IN  /\ ~local[p].result.ok
                  /\ local[p].result.error # SyntaxError
                  /\ local[p].result.error =
                        Error(IF hasMessage THEN BodyMessage(r.body.value.message)
                              ELSE StatusLine(r.status, r.statusText))

C15_Witness ==
    \E p \in Procs :
        /\ Settled(p, "fetchJson")
        /\ input[p].fetched # NetworkFailure
        /\ input[p].fetched.status = 404
        /\ input[p].fetched.body = Garbage
        /\ local[p].result = Thrown(Error(StatusLine(404, "Status")))

----------------------------------------------------------------------------
(* Properties of interleaved calls *)

AllIdle == \A p \in Procs : pc[p] = "idle"

OtherKeysUnchanged(key) ==
    \A k \in Keys \ {key} : LocalStorage'[k] = LocalStorage[k]

\* C14: with calls of upsertSite for one stored id interleaving, every write
\* of the index by a call leaves the entry of that call under the id and
\* every other entry as it was, and every write of the credential key leaves
\* the credentials of that call: for each of the two the last write wins,
\* the one independently of the other.
C14_LastWriterWins ==
    [][/\ \A p \in Procs :
            /\ (pc[p] = "us_meta_set" /\ pc'[p] = "us_cred_set")
                  => LET before == Entries(LocalStorage)
                         after == Entries(LocalStorage')
                         e == local[p].metadataEntry
                     IN  /\ Len(after) = Len(before)
                         /\ \A i \in 1..Len(before) :
                               after[i] = IF before[i].id = e.id THEN e
                                          ELSE before[i]
                         /\ \E i \in 1..Len(after) : after[i] = e
                         /\ OtherKeysUnchanged(SITE_INDEX_KEY)
            /\ (pc[p] = "us_cred_set" /\ pc'[p] = "done")
                  => /\ LocalStorage'[SecretKey(local[p].id)]
                           = JSONstringify(local[p].credentials)
                     /\ OtherKeysUnchanged(SecretKey(local[p].id))
       /\ (LocalStorage' # LocalStorage)
             => \E p \in Procs :
                   /\ pc[p] \in {"us_meta_set", "us_cred_set"}
                   /\ Stepped(p)
      ]_vars

\* both calls have completed; the entry is of one, the credentials of the other
C14_Witness ==
    /\ AllIdle
    /\ calls = 2
    /\ \E id \in StoredIds :
          /\ \E i \in 1..Len(Entries(LocalStorage)) :
                /\ Entries(LocalStorage)[i].id = id
                /\ Entries(LocalStorage)[i].name = "Blog"
          /\ LocalStorage[SecretKey(id)].value.username = "bob"
    /\ \E id \in OtherIds :
          \E i \in 1..Len(Entries(LocalStorage)) :
              Entries(LocalStorage)[i] = StoredEntry(id, "Old")

\* C19: when no call is running, every profile that getSites returns has a
\* connection and credentials that one successful validation request was made
\* with, also after calls of upsertSite for one id have interleaved.
C19_ProfilesValidatedTogether ==
    AllIdle
       => LET sites == getSites(LocalStorage)
          IN  /\ sites.ok
              /\ \A i \in 1..Len(sites.value) :
                    \E v \in validated :
                        /\ v.id = sites.value[i].id
                        /\ v.connection = [baseUrl |-> sites.value[i].baseUrl,
                                           restBase |-> sites.value[i].restBase]
                        /\ v.credentials = sites.value[i].credentials

\* the entries of a collection without those of one id, in their order
WithoutId(items, id) ==
    LET Keep(entry) == entry.id # id
    IN  SelectSeq(items, Keep)

\* C16: a successful upsertSite changes only the entry of its id: its write
\* of the index replaces the entry of the id where it is, or appends the
\* entry when the id is new, and leaves every other entry and every
\* credential record as it was; its write of the credential key leaves every
\* other key as it was.
C16_UpsertChangesOnlyItsEntry ==
    [][\A p \in Procs :
        /\ (pc[p] = "us_meta_set" /\ pc'[p] = "us_cred_set")
              => LET before == Entries(LocalStorage)
                     after == Entries(LocalStorage')
                     e == local[p].metadataEntry
                 IN  /\ IF \E i \in 1..Len(before) : before[i].id = e.id
                        THEN /\ Len(after) = Len(before)
                             /\ \E k \in 1..Len(before) :
                                   /\ before[k].id = e.id
                                   /\ after[k] = e
                                   /\ \A i \in 1..Len(before) :
                                         i # k => after[i] = before[i]
                        ELSE after = Append(before, e)
                     /\ OtherKeysUnchanged(SITE_INDEX_KEY)
        /\ (pc[p] = "us_cred_set" /\ pc'[p] = "done")
              => OtherKeysUnchanged(SecretKey(local[p].id))
      ]_vars

\* C17: removeSite(id) removes only the entries and the credential record of
\* the id: its write of the index leaves the other entries, in their order,
\* its removeItem leaves every other key as it was, and no profile of another
\* id stops being visible.
C17_RemoveChangesOnlyItsEntries ==
    [][\A p \in Procs :
        /\ (pc[p] = "rs_set" /\ pc'[p] = "rs_remove")
              => /\ Entries(LocalStorage')
                       = WithoutId(Entries(LocalStorage), local[p].id)
                 /\ OtherKeysUnchanged(SITE_INDEX_KEY)
                 /\ VisibleIds(LocalStorage')
                       = VisibleIds(LocalStorage) \ {local[p].id}
        /\ (pc[p] = "rs_remove" /\ pc'[p] = "done")
              => /\ LocalStorage'[SecretKey(local[p].id)] = Absent
                 /\ OtherKeysUnchanged(SecretKey(local[p].id))
                 /\ VisibleIds(LocalStorage')
                       = VisibleIds(LocalStorage) \ {local[p].id}
      ]_vars

\* C18: no write of a call of upsertSite or removeSite for one id makes the
\* profile of another id disappear from getSites, however the calls
\* interleave.
C18_NoLostUpdate ==
    [][\A p \in Procs :
        (/\ pc[p] \in {"us_meta_set", "us_cred_set", "rs_set", "rs_remove"}
         /\ Stepped(p)
         /\ pc'[p] # "failed")
           => (VisibleIds(LocalStorage) \ {local[p].id})
                 \subseteq VisibleIds(LocalStorage')
      ]_vars

\* C20: from an empty store, with the calls running one at a time to their
\* end and no storage operation rejecting, whenever no call is running the
\* ids that have a credential record are the ids of the metadata collection.
C20_NoOrphanedCredentials ==
    AllIdle => SecretIds(LocalStorage) = EntryIds(LocalStorage)

\* a site was stored by upsertSite and then removed
C20_Witness ==
    /\ AllIdle
    /\ calls = 2
    /\ validated # {}
    /\ LocalStorage[SITE_INDEX_KEY] = JSONstringify(JArray(<<>>))
    /\ SecretIds(LocalStorage) = {}

====
